---- MODULE Spec2Model ----
(***************************************************************************)
(* Model of lib/browser/api/browser-window.js: the BrowserWindow binding   *)
(* (_init), its event bridge, the visibility tracker, the setBounds        *)
(* override, the property pairs, the static registry queries and the       *)
(* helpers that call this.webContents.                                     *)
(*                                                                         *)
(* The specifications of the module:                                       *)
(*   Spec        - binding and the event bridge of one window              *)
(*   SpecPair    - binding and the event bridge of two windows             *)
(*   SpecGeom    - the setBounds override installed by _init               *)
(*   SpecReg     - the registry queries over the base window registry      *)
(*   SpecLife    - the registry over the windows' lifetimes                *)
(*   SpecHelpers - the helpers assigned to BrowserWindow.prototype         *)
(*   SpecProps   - the properties defined on BrowserWindow.prototype       *)
(***************************************************************************)
EXTENDS Naturals, Sequences, FiniteSets

\* ------------------------------------------------------------------ bounds
MaxEvents == 3     \* events delivered in one behaviour
MaxDepth == 2      \* emissions whose listeners are still running, nested

\* the identities a window of the event-bridge specifications can have
Win == {1, 2}

\* ------------------------------------------------------------- event names
visibilityEvents == {"show", "hide", "minimize", "maximize", "restore"}
forwardedEvents == {"blur", "focus"}
WindowEvents == visibilityEvents \cup forwardedEvents

VARIABLES
  made,        \* the windows the application constructs in this run
  native,      \* native[w]: the native window's visible / minimized flags
  wcDestroyed, \* wcDestroyed[w]: the webContents of w is destroyed
  win,         \* win[w]: what _init set up on the JavaScript window object
  wcEmits,     \* wcEmits[w]: '-window-visibility-change' payloads emitted on w.webContents
  focusCalls,  \* focusCalls[w]: calls of webContents.focus() made by the load-url listener
  appEmits,    \* emissions on app, in order: [name, event, window]
  stack,       \* emissions whose listeners are still running (innermost last)
  tokens,      \* event objects created so far (numbers them)
  events,      \* events delivered so far
  lastEv,      \* the event delivered last: [w, e]
  fwdEvents,   \* history: the blur and focus events delivered, in order: [w, e, event]
  loadUrls,    \* history: loadUrls[w] counts the 'load-url' events of w.webContents
  seen         \* history: seen[w] is what the tracker of w read at binding (atBind) and
               \* at its last run (last), whether every run read the value at binding
               \* (steady), how often it ran (runs), and whether its last run was
               \* inside a listener of the notification it emits (nested)

bridgeVars == <<made, native, wcDestroyed, win, wcEmits, focusCalls, appEmits, stack, tokens, events,
                lastEv, fwdEvents, loadUrls, seen>>

VARIABLES
  bounds,          \* the native window's bounds: what getBounds() returns
  getBoundsCalls,  \* number of getBounds() calls made
  nativeCalls,     \* number of calls of the native setBounds
  lastNativeCall   \* the arguments of its last call: [bounds, opts]

geomVars == <<bounds, getBoundsCalls, nativeCalls, lastNativeCall>>

VARIABLES
  registry,    \* TopLevelWindow.getAllWindows(): the ids of the live windows, in order
  nextId,      \* ids given out so far
  regWin,      \* regWin[id]: the window's kind, focus flags and browser view
  regResult,   \* how the last registration in the base registry ended
  returned     \* the array the application holds from its last getAllWindows() call

regVars == <<registry, nextId, regWin, regResult, returned>>

VARIABLES
  helperCalls, \* calls of the helpers of BrowserWindow.prototype made so far
  wcCalls,     \* calls the helpers made on this.webContents so far
  lastHelper   \* the last helper call: its name and arguments, the method called on
               \* this.webContents with its arguments and outcome, and the call's outcome

helperVars == <<helperCalls, wcCalls, lastHelper>>

VARIABLES
  attrs,       \* attrs[a]: the native window's attribute a
  propOps,     \* property assignments and reads made so far
  lastSet,     \* the property assigned last and the value: [p, v]
  lastGet      \* the property read last and the value read: [p, v]

propVars == <<attrs, propOps, lastSet, lastGet>>

apiVars == <<helperVars, propVars>>

vars == <<bridgeVars, geomVars, regVars, apiVars>>

\* ---------------------------------------------------------------- binding
Unbound == [status |-> "unbound", isVisible |-> FALSE, listeners |-> {},
            onceLoadUrl |-> FALSE, contentView |-> 0, setBoundsOverride |-> FALSE,
            devToolsWebContents |-> FALSE]

\* this.webContents of window w: set by the native constructor, one per window
webContentsOf(w) == w

\* this.isVisible() && !this.isMinimized()
DerivedVisible(w) == native[w].visible /\ ~native[w].minimized

\* an emission may start: its listeners will run nested in those still running
CanEmit == Len(stack) < MaxDepth

Emit(kind, w) == Append(stack, [kind |-> kind, w |-> w])

Hidden == [visible |-> FALSE, minimized |-> FALSE]
NoEvent == [w |-> 0, e |-> "none"]

InitBridge(W) ==
  /\ made = W
  /\ native \in {n \in [Win -> [visible : BOOLEAN, minimized : BOOLEAN]] :
                   \A w \in Win \ W : n[w] = Hidden}
  /\ wcDestroyed = [w \in Win |-> FALSE]
  /\ win = [w \in Win |-> Unbound]
  /\ wcEmits = [w \in Win |-> << >>]
  /\ focusCalls = [w \in Win |-> 0]
  /\ appEmits = << >>
  /\ stack = << >>
  /\ tokens = 0
  /\ events = 0
  /\ lastEv = NoEvent
  /\ fwdEvents = << >>
  /\ loadUrls = [w \in Win |-> 0]
  /\ seen = [w \in Win |-> [atBind |-> FALSE, last |-> FALSE, steady |-> TRUE, runs |-> 0,
                            nested |-> FALSE]]

\* process.electronBinding('event').createEmpty(): a new event object with nothing set
createEmpty == [id |-> tokens + 1, empty |-> TRUE]

\* the new event object the native layer passes with a delivered event
nativeEvent == [id |-> tokens + 1, empty |-> FALSE]

\* _init with the cache started at true instead of the value read
BrowserWindowInit_CacheTrue(w) ==
  /\ w \in made
  /\ win[w].status = "unbound"
  /\ CanEmit
  /\ win' = [win EXCEPT ![w] =
               [status |-> "init",
                contentView |-> webContentsOf(w),
                setBoundsOverride |-> TRUE,
                onceLoadUrl |-> TRUE,
                listeners |-> forwardedEvents \cup visibilityEvents,
                isVisible |-> TRUE,
                devToolsWebContents |-> FALSE]]
  /\ appEmits' = Append(appEmits,
                   [name |-> "browser-window-created", event |-> createEmpty, window |-> w])
  /\ tokens' = tokens + 1
  /\ stack' = Emit("created", w)
  /\ seen' = [seen EXCEPT ![w] = [atBind |-> DerivedVisible(w), last |-> DerivedVisible(w),
                                  steady |-> TRUE, runs |-> 0, nested |-> FALSE]]
  /\ UNCHANGED <<made, wcDestroyed, native, wcEmits, focusCalls, events, lastEv, fwdEvents, loadUrls>>
  /\ UNCHANGED <<geomVars, regVars, apiVars>>

\* _init with 'browser-window-created' emitted before the visibility subscriptions are made
BrowserWindowInit_EmitEarly(w) ==
  /\ w \in made
  /\ win[w].status = "unbound"
  /\ CanEmit
  /\ win' = [win EXCEPT ![w] =
               [status |-> "init",
                contentView |-> webContentsOf(w),
                setBoundsOverride |-> TRUE,
                onceLoadUrl |-> TRUE,
                listeners |-> forwardedEvents,
                isVisible |-> DerivedVisible(w),
                devToolsWebContents |-> FALSE]]
  /\ appEmits' = Append(appEmits,
                   [name |-> "browser-window-created", event |-> createEmpty, window |-> w])
  /\ tokens' = tokens + 1
  /\ stack' = Emit("created", w)
  /\ seen' = [seen EXCEPT ![w] = [atBind |-> DerivedVisible(w), last |-> DerivedVisible(w),
                                  steady |-> TRUE, runs |-> 0, nested |-> FALSE]]
  /\ UNCHANGED <<made, wcDestroyed, native, wcEmits, focusCalls, events, lastEv, fwdEvents, loadUrls>>
  /\ UNCHANGED <<geomVars, regVars, apiVars>>

\* _init with the content view made for another webContents than this.webContents
BrowserWindowInit_OtherSurface(w) ==
  /\ w \in made
  /\ win[w].status = "unbound"
  /\ CanEmit
  /\ win' = [win EXCEPT ![w] =
               [status |-> "init",
                contentView |-> webContentsOf(CHOOSE v \in Win : v # w),
                setBoundsOverride |-> TRUE,
                onceLoadUrl |-> TRUE,
                listeners |-> forwardedEvents \cup visibilityEvents,
                isVisible |-> DerivedVisible(w),
                devToolsWebContents |-> FALSE]]
  /\ appEmits' = Append(appEmits,
                   [name |-> "browser-window-created", event |-> createEmpty, window |-> w])
  /\ tokens' = tokens + 1
  /\ stack' = Emit("created", w)
  /\ seen' = [seen EXCEPT ![w] = [atBind |-> DerivedVisible(w), last |-> DerivedVisible(w),
                                  steady |-> TRUE, runs |-> 0, nested |-> FALSE]]
  /\ UNCHANGED <<made, wcDestroyed, native, wcEmits, focusCalls, events, lastEv, fwdEvents, loadUrls>>
  /\ UNCHANGED <<geomVars, regVars, apiVars>>

\* BrowserWindow.prototype._init up to and including app.emit('browser-window-created'):
\* the listeners of that emission run before _init goes on.
BrowserWindowInit(w) ==
  /\ w \in made
  /\ win[w].status = "unbound"
  /\ CanEmit
  /\ win' = [win EXCEPT ![w] =
               [status |-> "init",
                contentView |-> webContentsOf(w),
                setBoundsOverride |-> TRUE,
                onceLoadUrl |-> TRUE,
                listeners |-> forwardedEvents \cup visibilityEvents,
                isVisible |-> DerivedVisible(w),
                devToolsWebContents |-> FALSE]]
  /\ appEmits' = Append(appEmits,
                   [name |-> "browser-window-created", event |-> createEmpty, window |-> w])
  /\ tokens' = tokens + 1
  /\ stack' = Emit("created", w)
  /\ seen' = [seen EXCEPT ![w] = [atBind |-> DerivedVisible(w), last |-> DerivedVisible(w),
                                  steady |-> TRUE, runs |-> 0, nested |-> FALSE]]
  /\ UNCHANGED <<made, wcDestroyed, native, wcEmits, focusCalls, events, lastEv, fwdEvents, loadUrls>>
  /\ UNCHANGED <<geomVars, regVars, apiVars>>

\* the listener with the payloads exchanged
visibilityChanged_Swapped(w) ==
  LET newState == DerivedVisible(w) IN
  IF win[w].isVisible # newState
    THEN /\ CanEmit
         /\ win' = [win EXCEPT ![w].isVisible = newState]
         /\ wcEmits' = [wcEmits EXCEPT ![w] =
                          Append(@, IF newState THEN "hidden" ELSE "visible")]
         /\ stack' = Emit("visibility", w)
    ELSE UNCHANGED <<win, wcEmits, stack>>

\* the listener without the comparison: it notifies on every event
visibilityChanged_NoDedupe(w) ==
  LET newState == DerivedVisible(w) IN
    /\ CanEmit
    /\ win' = [win EXCEPT ![w].isVisible = newState]
    /\ wcEmits' = [wcEmits EXCEPT ![w] =
                     Append(@, IF newState THEN "visible" ELSE "hidden")]
    /\ stack' = Emit("visibility", w)

\* the listener without the assignment to the cache
visibilityChanged_StaleCache(w) ==
  LET newState == DerivedVisible(w) IN
  IF win[w].isVisible # newState
    THEN /\ CanEmit
         /\ UNCHANGED win
         /\ wcEmits' = [wcEmits EXCEPT ![w] =
                          Append(@, IF newState THEN "visible" ELSE "hidden")]
         /\ stack' = Emit("visibility", w)
    ELSE UNCHANGED <<win, wcEmits, stack>>

\* the listener with isVisible declared once for all windows, outside _init
visibilityChanged_SharedCache(w) ==
  LET newState == DerivedVisible(w) IN
  IF win[w].isVisible # newState
    THEN /\ CanEmit
         /\ win' = [v \in Win |-> [win[v] EXCEPT !.isVisible = newState]]
         /\ wcEmits' = [wcEmits EXCEPT ![w] =
                          Append(@, IF newState THEN "visible" ELSE "hidden")]
         /\ stack' = Emit("visibility", w)
    ELSE UNCHANGED <<win, wcEmits, stack>>

\* the listener installed on show, hide, minimize, maximize and restore
visibilityChanged(w) ==
  LET newState == DerivedVisible(w) IN
  IF win[w].isVisible # newState
    THEN /\ CanEmit
         /\ win' = [win EXCEPT ![w].isVisible = newState]
         /\ wcEmits' = [wcEmits EXCEPT ![w] =
                          Append(@, IF newState THEN "visible" ELSE "hidden")]
         /\ stack' = Emit("visibility", w)
    ELSE UNCHANGED <<win, wcEmits, stack>>

\* the forwarders with the blur one emitting the focus notification too
forwardToApp_AlwaysFocus(w, e, event) ==
  /\ CanEmit
  /\ appEmits' = Append(appEmits,
                   [name |-> "browser-window-focus", event |-> event, window |-> w])
  /\ stack' = Emit(e, w)

\* the listeners installed on blur and focus
forwardToApp(w, e, event) ==
  /\ CanEmit
  /\ appEmits' = Append(appEmits,
                   [name |-> IF e = "blur" THEN "browser-window-blur"
                                           ELSE "browser-window-focus",
                    event |-> event, window |-> w])
  /\ stack' = Emit(e, w)

\* a listener of '-window-visibility-change' of w is running
Nested(w) == \E i \in 1..Len(stack) : stack[i].kind = "visibility" /\ stack[i].w = w

\* The native layer (or a listener that is still running) delivers window event e to w:
\* the listeners _init installed for e run.
WindowEvent(w, e) ==
  /\ win[w].status # "unbound"
  /\ events < MaxEvents
  /\ events' = events + 1
  /\ tokens' = tokens + 1
  /\ lastEv' = [w |-> w, e |-> e]
  /\ IF e \in win[w].listeners /\ e \in visibilityEvents
       THEN /\ visibilityChanged(w)
            /\ seen' = [seen EXCEPT ![w].last = DerivedVisible(w),
                                    ![w].steady = @ /\ DerivedVisible(w) = seen[w].atBind,
                                    ![w].runs = @ + 1,
                                    ![w].nested = Nested(w)]
            /\ UNCHANGED <<appEmits, fwdEvents>>
       ELSE IF e \in win[w].listeners /\ e \in forwardedEvents
         THEN /\ forwardToApp(w, e, nativeEvent)
              /\ fwdEvents' = Append(fwdEvents, [w |-> w, e |-> e, event |-> nativeEvent])
              /\ UNCHANGED <<win, wcEmits, seen>>
         ELSE UNCHANGED <<win, wcEmits, appEmits, stack, seen, fwdEvents>>
  /\ UNCHANGED <<made, wcDestroyed, native, focusCalls, loadUrls>>
  /\ UNCHANGED <<geomVars, regVars, apiVars>>

\* the listener installed with on instead of once: it stays
focusOnLoadUrl_NotOnce(w) ==
  /\ UNCHANGED win
  /\ focusCalls' = [focusCalls EXCEPT ![w] = @ + 1]

\* the listener installed with webContents.once('load-url'): once removes it, then calls it
focusOnLoadUrl(w) ==
  /\ win' = [win EXCEPT ![w].onceLoadUrl = FALSE]
  /\ focusCalls' = [focusCalls EXCEPT ![w] = @ + 1]

\* 'load-url' is emitted on the webContents of w; one that is destroyed loads nothing
LoadUrl(w) ==
  /\ win[w].status # "unbound"
  /\ ~wcDestroyed[w]
  /\ events < MaxEvents
  /\ events' = events + 1
  /\ tokens' = tokens + 1
  /\ lastEv' = [w |-> w, e |-> "load-url"]
  /\ loadUrls' = [loadUrls EXCEPT ![w] = @ + 1]
  /\ IF win[w].onceLoadUrl
       THEN focusOnLoadUrl(w)
       ELSE UNCHANGED <<win, focusCalls>>
  /\ UNCHANGED <<made, wcDestroyed, native, wcEmits, appEmits, stack, fwdEvents, seen>>
  /\ UNCHANGED <<geomVars, regVars, apiVars>>

\* The listeners of the innermost emission return. After the listeners of
\* 'browser-window-created' _init defines devToolsWebContents and ends.
ListenersReturn ==
  /\ stack # << >>
  /\ stack' = SubSeq(stack, 1, Len(stack) - 1)
  /\ LET top == stack[Len(stack)] IN
       IF top.kind = "created"
         THEN win' = [win EXCEPT ![top.w].status = "ready",
                                 ![top.w].devToolsWebContents = TRUE]
         ELSE UNCHANGED win
  /\ UNCHANGED <<made, wcDestroyed, native, wcEmits, focusCalls, appEmits, tokens, events, lastEv,
                 fwdEvents, loadUrls, seen>>
  /\ UNCHANGED <<geomVars, regVars, apiVars>>

\* The native window of w is shown or hidden, minimized or restored.
NativeSetVisible(w, b) ==
  /\ w \in made
  /\ native[w].visible # b
  /\ native' = [native EXCEPT ![w].visible = b]
  /\ UNCHANGED <<made, wcDestroyed, win, wcEmits, focusCalls, appEmits, stack, tokens, events, lastEv,
                 fwdEvents, loadUrls, seen>>
  /\ UNCHANGED <<geomVars, regVars, apiVars>>

NativeSetMinimized(w, b) ==
  /\ w \in made
  /\ native[w].minimized # b
  /\ native' = [native EXCEPT ![w].minimized = b]
  /\ UNCHANGED <<made, wcDestroyed, win, wcEmits, focusCalls, appEmits, stack, tokens, events, lastEv,
                 fwdEvents, loadUrls, seen>>
  /\ UNCHANGED <<geomVars, regVars, apiVars>>

\* The webContents of w is destroyed. No listener _init installed runs at that.
DestroyContents(w) ==
  /\ win[w].status # "unbound"
  /\ ~wcDestroyed[w]
  /\ wcDestroyed' = [wcDestroyed EXCEPT ![w] = TRUE]
  /\ UNCHANGED <<made, native, win, wcEmits, focusCalls, appEmits, stack, tokens, events,
                 lastEv, fwdEvents, loadUrls, seen>>
  /\ UNCHANGED <<geomVars, regVars, apiVars>>

NextBridge ==
  \/ \E w \in Win : BrowserWindowInit(w)
  \/ \E w \in Win, e \in WindowEvents : WindowEvent(w, e)
  \/ \E w \in Win : LoadUrl(w)
  \/ ListenersReturn
  \/ \E w \in Win, b \in BOOLEAN : NativeSetVisible(w, b)
  \/ \E w \in Win, b \in BOOLEAN : NativeSetMinimized(w, b)
  \/ \E w \in Win : DestroyContents(w)

\* ------------------------------------------------------------- setBounds
Fields == {"x", "y", "width", "height"}

\* the values a field of a bounds rectangle takes here
FieldValues == [x |-> {0, 10}, y |-> {0, 20}, width |-> {800, 1000}, height |-> {600, 700}]
Bounds == [x : FieldValues.x, y : FieldValues.y,
           width : FieldValues.width, height : FieldValues.height]

\* a patch gives values to some of the fields: a function on a subset of Fields
Patches == {[f \in F |-> b[f]] : b \in Bounds, F \in SUBSET Fields}

\* the arguments after the first: none, or the animate flag
Opts == {<< >>, <<TRUE>>}

MaxCalls == 2      \* setBounds calls in one behaviour

NoCall == [bounds |-> [x |-> 0, y |-> 0, width |-> 0, height |-> 0], opts |-> << >>]


InitGeom(BS) ==
  /\ bounds \in BS
  /\ getBoundsCalls = 0
  /\ nativeCalls = 0
  /\ lastNativeCall = NoCall

\* the spreads in the other order: { ...bounds, ...this.getBounds() }
Merge_Reversed(B, P) == [f \in Fields |-> B[f]]

\* { ...this.getBounds(), ...bounds }: the fields of the patch over those of B
Merge(B, P) == [f \in Fields |-> IF f \in DOMAIN P THEN P[f] ELSE B[f]]

\* the override of setBounds that _init installs on the window
setBounds(P, opts) ==
  /\ nativeCalls < MaxCalls
  /\ getBoundsCalls' = getBoundsCalls + 1
  /\ nativeCalls' = nativeCalls + 1
  /\ lastNativeCall' = [bounds |-> Merge(bounds, P), opts |-> opts]
  /\ bounds' = Merge(bounds, P)
  /\ UNCHANGED <<bridgeVars, regVars, apiVars>>

\* the user or the window manager moves or resizes the window
NativeResize(B) ==
  /\ bounds # B
  /\ bounds' = B
  /\ UNCHANGED <<getBoundsCalls, nativeCalls, lastNativeCall>>
  /\ UNCHANGED <<bridgeVars, regVars, apiVars>>

NextGeom ==
  \/ \E P \in Patches, opts \in Opts : setBounds(P, opts)
  \/ \E B \in Bounds : NativeResize(B)

\* -------------------------------------------------------------- registry
MaxRegWin == 3     \* top-level windows constructed in one behaviour

RegIds == 1..MaxRegWin
Null == 0
NoView == 0
Views == {1, 2}    \* the BrowserView handles


NoContents == 0

NoWindow == [kind |-> "none", webContents |-> NoContents, focused |-> FALSE,
             devToolsFocused |-> FALSE, browserView |-> NoView, destroyed |-> FALSE]

\* no array is held; one that is held is a new array of its own (live is false) or
\* the array the base registry keeps, which changes with the registry (live is true)
NoArray == [held |-> FALSE, live |-> FALSE, items |-> << >>]

InitReg ==
  /\ registry = << >>
  /\ nextId = 0
  /\ regWin = [id \in RegIds |-> NoWindow]
  /\ regResult = "none"
  /\ returned = NoArray

\* A top-level window of kind k is constructed: it gets the next id and joins the
\* registry; a BrowserWindow gets a webContents of its own, another kind has none.
Construct(k, v) ==
  /\ nextId < MaxRegWin
  /\ k = "TopLevelWindow" => v = NoView
  /\ nextId' = nextId + 1
  /\ registry' = Append(registry, nextId + 1)
  /\ regWin' = [regWin EXCEPT ![nextId + 1] =
                  [kind |-> k,
                   webContents |-> IF k = "BrowserWindow" THEN nextId + 1 ELSE NoContents,
                   focused |-> FALSE, devToolsFocused |-> FALSE, browserView |-> v,
                   destroyed |-> FALSE]]
  /\ regResult' = "ok"
  /\ UNCHANGED returned
  /\ UNCHANGED <<bridgeVars, geomVars, apiVars>>

\* A window is closed and destroyed: it leaves the registry. The object that was the
\* window is still of its kind; it has no webContents, view or focus any more.
DestroyWindow(id) ==
  /\ \E i \in 1..Len(registry) : registry[i] = id
  /\ registry' = SelectSeq(registry, LAMBDA x : x # id)
  /\ regWin' = [regWin EXCEPT ![id] = [NoWindow EXCEPT !.kind = regWin[id].kind,
                                                       !.destroyed = TRUE]]
  /\ UNCHANGED <<nextId, regResult, returned>>
  /\ UNCHANGED <<bridgeVars, geomVars, apiVars>>

InRegistry(id) == \E i \in 1..Len(registry) : registry[i] = id

\* The window gains or loses the input focus.
SetFocused(id, b) ==
  /\ InRegistry(id)
  /\ regWin[id].focused # b
  /\ regWin' = [regWin EXCEPT ![id].focused = b]
  /\ UNCHANGED <<registry, nextId, regResult, returned>>
  /\ UNCHANGED <<bridgeVars, geomVars, apiVars>>

\* The developer tools of the window's webContents gain or lose the focus.
SetDevToolsFocused(id, b) ==
  /\ InRegistry(id)
  /\ regWin[id].kind = "BrowserWindow"
  /\ regWin[id].devToolsFocused # b
  /\ regWin' = [regWin EXCEPT ![id].devToolsFocused = b]
  /\ UNCHANGED <<registry, nextId, regResult, returned>>
  /\ UNCHANGED <<bridgeVars, geomVars, apiVars>>

\* A registration under an id the registry holds fails with DuplicateIdentity and
\* leaves the registry as it is.
RegisterDuplicate(id) ==
  /\ InRegistry(id)
  /\ regResult' = "DuplicateIdentity"
  /\ UNCHANGED <<registry, nextId, regWin, returned>>
  /\ UNCHANGED <<bridgeVars, geomVars, apiVars>>

\* ------------------------------------------------------ registry queries
\* TopLevelWindow.fromId(id): the live window with this id, or nothing
TopLevelWindow_fromId(id) == IF InRegistry(id) THEN id ELSE Null

\* TopLevelWindow.getAllWindows(): the live windows, as a new array
TopLevelWindow_getAllWindows == registry

\* win && win.constructor.name === 'BrowserWindow'
isBrowserWindow(id) == id # Null /\ regWin[id].kind = "BrowserWindow"

\* the lookup in a table of its own that destruction does not clear
fromId_OwnTable(id) == IF regWin[id].kind = "BrowserWindow" THEN id ELSE Null

fromId(id) ==
  LET w == TopLevelWindow_fromId(id) IN IF isBrowserWindow(w) THEN w ELSE Null

getAllWindows == SelectSeq(TopLevelWindow_getAllWindows, isBrowserWindow)

isFocused(id) == regWin[id].focused

\* this.webContents.isDevToolsFocused()
isDevToolsFocused(id) == regWin[id].devToolsFocused

\* the scan looking at isFocused() alone
RECURSIVE ScanFocused_NoDevTools(_)
ScanFocused_NoDevTools(ws) ==
  IF ws = << >> THEN Null
  ELSE IF isFocused(Head(ws)) THEN Head(ws)
  ELSE ScanFocused_NoDevTools(Tail(ws))

\* for (const window of ...) { if (window.isFocused() || window.isDevToolsFocused()) return window }
RECURSIVE ScanFocused(_)
ScanFocused(ws) ==
  IF ws = << >> THEN Null
  ELSE IF isFocused(Head(ws)) \/ isDevToolsFocused(Head(ws)) THEN Head(ws)
  ELSE ScanFocused(Tail(ws))

getFocusedWindow == ScanFocused(getAllWindows)

\* webContents.equal(other): the two are the same webContents
equal(a, b) == a = b

\* the scan giving up after the first window
ScanWebContents_FirstOnly(ws, webContents) ==
  IF ws = << >> THEN Null
  ELSE IF regWin[Head(ws)].webContents # NoContents
          /\ equal(regWin[Head(ws)].webContents, webContents) THEN Head(ws)
  ELSE Null

\* for (const window of ...) { if (window.webContents && window.webContents.equal(webContents)) return window }
RECURSIVE ScanWebContents(_, _)
ScanWebContents(ws, webContents) ==
  IF ws = << >> THEN Null
  ELSE IF regWin[Head(ws)].webContents # NoContents
          /\ equal(regWin[Head(ws)].webContents, webContents) THEN Head(ws)
  ELSE ScanWebContents(Tail(ws), webContents)

fromWebContents(webContents) == ScanWebContents(getAllWindows, webContents)

\* window.getBrowserView(): the BrowserView attached to the window, or null
getBrowserView(id) == regWin[id].browserView

\* the scan going on after a match: it returns the last window with the view
RECURSIVE ScanBrowserView_LastMatch(_, _)
ScanBrowserView_LastMatch(ws, browserView) ==
  IF ws = << >> THEN Null
  ELSE IF ScanBrowserView_LastMatch(Tail(ws), browserView) # Null
    THEN ScanBrowserView_LastMatch(Tail(ws), browserView)
  ELSE IF getBrowserView(Head(ws)) = browserView THEN Head(ws)
  ELSE Null

\* for (const window of ...) { if (window.getBrowserView() === browserView) return window }
RECURSIVE ScanBrowserView(_, _)
ScanBrowserView(ws, browserView) ==
  IF ws = << >> THEN Null
  ELSE IF getBrowserView(Head(ws)) = browserView THEN Head(ws)
  ELSE ScanBrowserView(Tail(ws), browserView)

fromBrowserView(browserView) == ScanBrowserView(getAllWindows, browserView)

\* the call handing out the array the base registry keeps, unfiltered
CallGetAllWindows_BaseArray ==
  /\ returned' = [held |-> TRUE, live |-> TRUE, items |-> << >>]
  /\ UNCHANGED <<registry, nextId, regWin, regResult>>
  /\ UNCHANGED <<bridgeVars, geomVars, apiVars>>

\* The application calls BrowserWindow.getAllWindows() and keeps the result: filter()
\* builds a new array.
CallGetAllWindows ==
  /\ returned' = [held |-> TRUE, live |-> FALSE, items |-> getAllWindows]
  /\ UNCHANGED <<registry, nextId, regWin, regResult>>
  /\ UNCHANGED <<bridgeVars, geomVars, apiVars>>

\* what the application reads in the array it holds
Contents(r) == IF r.live THEN TopLevelWindow_getAllWindows ELSE r.items


NextReg ==
  \/ \E k \in {"BrowserWindow", "TopLevelWindow"}, v \in Views \cup {NoView} : Construct(k, v)
  \/ \E id \in RegIds : DestroyWindow(id)
  \/ \E id \in RegIds, b \in BOOLEAN : SetFocused(id, b)
  \/ \E id \in RegIds, b \in BOOLEAN : SetDevToolsFocused(id, b)

\* the registry's changes and the arrays handed out; the focus plays no part in them
NextLife ==
  \/ \E k \in {"BrowserWindow", "TopLevelWindow"}, v \in Views \cup {NoView} : Construct(k, v)
  \/ \E id \in RegIds : DestroyWindow(id)
  \/ \E id \in RegIds : RegisterDuplicate(id)
  \/ CallGetAllWindows

\* ---------------------------------------------------------------- helpers
MaxHelperCalls == 2   \* helper calls in one behaviour

\* the helpers written with (...args) that hand args on
passAll == {"loadURL", "loadFile", "reload", "send", "openDevTools", "inspectElement",
            "capturePage"}

\* the helpers that call the method of this.webContents without arguments
passNone == {"getURL", "closeDevTools", "isDevToolsOpened", "isDevToolsFocused",
             "toggleDevTools", "inspectSharedWorker", "inspectServiceWorker",
             "showDefinitionForSelection"}

\* the helper that hands on its one named parameter
passFirst == {"setBackgroundThrottling"}

\* the helpers whose body has no return
noReturn == {"setBackgroundThrottling"}

Helpers == passAll \cup passNone \cup passFirst

Undefined == "undefined"

\* the argument lists a caller gives, and what the method of this.webContents does
HelperArgs == {<< >>, <<"a">>, <<"a", "b">>}
Outcomes == {[kind |-> "return", v |-> "r"], [kind |-> "return", v |-> Undefined],
             [kind |-> "throw", v |-> "e"]}

NoHelper == [op |-> "none", args |-> << >>, wcOp |-> "none", wcArgs |-> << >>,
             wcOut |-> [kind |-> "return", v |-> Undefined],
             out |-> [kind |-> "return", v |-> Undefined]]

InitHelpers ==
  /\ helperCalls = 0
  /\ wcCalls = 0
  /\ lastHelper = NoHelper

\* every helper calling without arguments
wcArgsOf_Dropped(op, args) == << >>

\* the arguments the helper op, called with args, gives to the method of this.webContents
wcArgsOf(op, args) ==
  IF op \in passAll THEN args
  ELSE IF op \in passFirst THEN <<IF args = << >> THEN Undefined ELSE Head(args)>>
  ELSE << >>

\* how the call of helper op ends when the method of this.webContents ends with out:
\* what is thrown goes through; a body without return gives undefined
helperOutcome(op, out) ==
  IF out.kind = "throw" THEN out
  ELSE IF op \in noReturn THEN [kind |-> "return", v |-> Undefined]
  ELSE out

\* the helper op of Object.assign(BrowserWindow.prototype, ...) is called with args
Helper(op, args, out) ==
  /\ helperCalls < MaxHelperCalls
  /\ helperCalls' = helperCalls + 1
  /\ wcCalls' = wcCalls + 1
  /\ lastHelper' = [op |-> op, args |-> args, wcOp |-> op, wcArgs |-> wcArgsOf(op, args),
                    wcOut |-> out, out |-> helperOutcome(op, out)]
  /\ UNCHANGED <<bridgeVars, geomVars, regVars, propVars>>

NextHelpers == \E op \in Helpers, args \in HelperArgs, out \in Outcomes : Helper(op, args, out)

\* ------------------------------------------------------------- properties
MaxPropOps == 2    \* property assignments and reads in one behaviour

\* the native method the getter of each property calls
getter == [autoHideMenuBar |-> "isMenuBarAutoHide",
           visibleOnAllWorkspaces |-> "isVisibleOnAllWorkspaces",
           simpleFullScreen |-> "isSimpleFullScreen",
           kiosk |-> "isKiosk",
           documentEdited |-> "isFullscreen",
           shadow |-> "hasShadow",
           representedFilename |-> "getRepresentedFilename",
           minimizable |-> "isMinimizable",
           title |-> "getTitle",
           maximizable |-> "isMaximizable",
           resizable |-> "isResizable",
           menuBarVisible |-> "isMenuBarVisible",
           fullScreenable |-> "isFullScreenable",
           closable |-> "isClosable",
           movable |-> "isMovable"]

\* the native method the setter of each property calls
setter == [autoHideMenuBar |-> "setAutoHideMenuBar",
           visibleOnAllWorkspaces |-> "setVisibleOnAllWorkspaces",
           simpleFullScreen |-> "setSimpleFullScreen",
           kiosk |-> "setKiosk",
           documentEdited |-> "setDocumentEdited",
           shadow |-> "setHasShadow",
           representedFilename |-> "setRepresentedFilename",
           minimizable |-> "setMinimizable",
           title |-> "setTitle",
           maximizable |-> "setMaximizable",
           resizable |-> "setResizable",
           menuBarVisible |-> "setMenuBarVisibility",
           fullScreenable |-> "setFullScreenable",
           closable |-> "setClosable",
           movable |-> "setMovable"]

Properties == DOMAIN getter

\* the attribute of the native window each native reader gives
nativeReads == [isMenuBarAutoHide |-> "autoHideMenuBar",
                isVisibleOnAllWorkspaces |-> "visibleOnAllWorkspaces",
                isSimpleFullScreen |-> "simpleFullScreen",
                isKiosk |-> "kiosk",
                isDocumentEdited |-> "documentEdited",
                isFullscreen |-> "fullscreen",
                hasShadow |-> "shadow",
                getRepresentedFilename |-> "representedFilename",
                isMinimizable |-> "minimizable",
                getTitle |-> "title",
                isMaximizable |-> "maximizable",
                isResizable |-> "resizable",
                isMenuBarVisible |-> "menuBarVisible",
                isFullScreenable |-> "fullScreenable",
                isClosable |-> "closable",
                isMovable |-> "movable"]

\* the attribute of the native window each native writer sets
nativeWrites == [setAutoHideMenuBar |-> "autoHideMenuBar",
                 setVisibleOnAllWorkspaces |-> "visibleOnAllWorkspaces",
                 setSimpleFullScreen |-> "simpleFullScreen",
                 setKiosk |-> "kiosk",
                 setDocumentEdited |-> "documentEdited",
                 setFullScreen |-> "fullscreen",
                 setHasShadow |-> "shadow",
                 setRepresentedFilename |-> "representedFilename",
                 setMinimizable |-> "minimizable",
                 setTitle |-> "title",
                 setMaximizable |-> "maximizable",
                 setResizable |-> "resizable",
                 setMenuBarVisibility |-> "menuBarVisible",
                 setFullScreenable |-> "fullScreenable",
                 setClosable |-> "closable",
                 setMovable |-> "movable"]

NativeAttrs == {nativeReads[m] : m \in DOMAIN nativeReads}

\* the values an attribute takes: a text for the two that are texts, a flag otherwise
AttrValues(a) == IF a \in {"title", "representedFilename"} THEN {"", "a"} ELSE BOOLEAN

NoProp == [p |-> "none", v |-> FALSE]

InitProps ==
  /\ attrs = [a \in NativeAttrs |-> IF a \in {"title", "representedFilename"} THEN "" ELSE FALSE]
  /\ propOps = 0
  /\ lastSet = NoProp
  /\ lastGet = NoProp

\* window.p = v: the setter of p runs
SetProperty(p, v) ==
  /\ propOps < MaxPropOps
  /\ propOps' = propOps + 1
  /\ attrs' = [attrs EXCEPT ![nativeWrites[setter[p]]] = v]
  /\ lastSet' = [p |-> p, v |-> v]
  /\ UNCHANGED lastGet
  /\ UNCHANGED <<bridgeVars, geomVars, regVars, helperVars>>

\* window.p is read: the getter of p runs
GetProperty(p) ==
  /\ propOps < MaxPropOps
  /\ propOps' = propOps + 1
  /\ lastGet' = [p |-> p, v |-> attrs[nativeReads[getter[p]]]]
  /\ UNCHANGED <<attrs, lastSet>>
  /\ UNCHANGED <<bridgeVars, geomVars, regVars, helperVars>>

\* the window enters or leaves the full screen
NativeSetFullScreen(b) ==
  /\ attrs["fullscreen"] # b
  /\ attrs' = [attrs EXCEPT !["fullscreen"] = b]
  /\ UNCHANGED <<propOps, lastSet, lastGet>>
  /\ UNCHANGED <<bridgeVars, geomVars, regVars, helperVars>>

NextProps ==
  \/ \E p \in Properties : \E v \in AttrValues(nativeWrites[setter[p]]) : SetProperty(p, v)
  \/ \E p \in Properties : GetProperty(p)
  \/ \E b \in BOOLEAN : NativeSetFullScreen(b)

\* ------------------------------------------------------- specifications
OneBounds == {[x |-> 0, y |-> 0, width |-> 800, height |-> 600]}

\* binding and the event bridge of one window
InitApi == InitHelpers /\ InitProps

Init == InitBridge({1}) /\ InitGeom(OneBounds) /\ InitReg /\ InitApi
Next == NextBridge
Spec == Init /\ [][Next]_vars

MaxPairEvents == 1   \* events delivered in one behaviour of two windows

\* two windows side by side, both created hidden: binding, events and the native show
\* and hide
PairWindowEvent(w, e) == events < MaxPairEvents /\ WindowEvent(w, e)

PairLoadUrl(w) == events < MaxPairEvents /\ LoadUrl(w)

NextPair ==
  \/ \E w \in Win : BrowserWindowInit(w)
  \/ \E w \in Win, e \in WindowEvents : PairWindowEvent(w, e)
  \/ \E w \in Win : PairLoadUrl(w)
  \/ ListenersReturn
  \/ \E w \in Win, b \in BOOLEAN : NativeSetVisible(w, b)

PairInit ==
  /\ InitBridge(Win)
  /\ native = [w \in Win |-> Hidden]
  /\ InitGeom(OneBounds) /\ InitReg /\ InitApi
SpecPair == PairInit /\ [][NextPair]_vars

\* the setBounds override of a window
GeomInit == InitBridge({}) /\ InitGeom(Bounds) /\ InitReg /\ InitApi
SpecGeom == GeomInit /\ [][NextGeom]_vars

\* the registry queries
RegInit == InitBridge({}) /\ InitGeom(OneBounds) /\ InitReg /\ InitApi
SpecReg == RegInit /\ [][NextReg]_vars

\* the registry over the windows' lifetimes
LifeInit == InitBridge({}) /\ InitGeom(OneBounds) /\ InitReg /\ InitApi
SpecLife == LifeInit /\ [][NextLife]_vars

\* the helpers of a window
HelpersInit == InitBridge({}) /\ InitGeom(OneBounds) /\ InitReg /\ InitApi
SpecHelpers == HelpersInit /\ [][NextHelpers]_vars

\* the properties of a window
PropsInit == InitBridge({}) /\ InitGeom(OneBounds) /\ InitReg /\ InitApi
SpecProps == PropsInit /\ [][NextProps]_vars


\* ------------------------------------------------------------- the claims
Bound(w) == win[w].status # "unbound"
Quiescent == stack = << >>
Payload(b) == IF b THEN "visible" ELSE "hidden"

\* this step delivers event e to window w
Delivered(w, e) == events' = events + 1 /\ lastEv' = [w |-> w, e |-> e]

\* C1: each of show, hide, minimize, maximize and restore delivered to a bound window
\* makes the handler compare isVisible() && !isMinimized() with the cache: when they
\* differ the cache takes the new value and exactly one notification, 'visible' or
\* 'hidden' after the new value, is emitted on the window's webContents; when they are
\* equal nothing is emitted and the cache stays.
C1_HandlerRule ==
  [][\A w \in Win, e \in visibilityEvents :
       Delivered(w, e) /\ Bound(w) =>
         LET newState == DerivedVisible(w) IN
           IF newState # win[w].isVisible
             THEN /\ win'[w].isVisible = newState
                  /\ wcEmits'[w] = Append(wcEmits[w], Payload(newState))
             ELSE /\ win'[w].isVisible = win[w].isVisible
                  /\ wcEmits'[w] = wcEmits[w]]_vars

C1_Witness ==
  /\ lastEv.e \in visibilityEvents
  /\ wcEmits[1] = <<"hidden", "visible">>
  /\ win[1].isVisible

\* C2 as stated: whenever the value read at the last event is the value read at
\* binding, no notification has been emitted since binding.
C2_Original ==
  \A w \in Win : Bound(w) /\ seen[w].last = seen[w].atBind => wcEmits[w] = << >>

C2_SteadyIsSilent ==
  \A w \in Win : Bound(w) /\ seen[w].steady => wcEmits[w] = << >>

C2_FlipNotifiesOnce ==
  \A w \in Win, e \in visibilityEvents :
    Delivered(w, e) /\ Bound(w) /\ DerivedVisible(w) # seen[w].last =>
      wcEmits'[w] = Append(wcEmits[w], Payload(DerivedVisible(w)))

\* C2, amended: a sequence of lifecycle events at each of which the derived value is
\* the one before the sequence produces no notification; and an event at which the
\* derived value differs from the one at the event before produces exactly one
\* notification, of the new value's polarity.
C2_Amended == []C2_SteadyIsSilent /\ [][C2_FlipNotifiesOnce]_vars

C2_Witness ==
  /\ seen[1].runs = 3
  /\ seen[1].steady
  /\ wcEmits[1] = << >>

\* C3 as stated: with no listener running, the cache of a bound window is the current
\* isVisible() && !isMinimized().
C3_Original ==
  \A w \in Win :
    Quiescent /\ win[w].status = "ready" => win[w].isVisible = DerivedVisible(w)

\* C3, amended: the cache of a bound window is the value of isVisible() &&
\* !isMinimized() read by the handler of the lifecycle event processed last, or at
\* binding when none was processed.
C3_CacheIsLastRead ==
  \A w \in Win : Bound(w) => win[w].isVisible = seen[w].last

C3_Witness ==
  /\ Quiescent
  /\ win[1].status = "ready"
  /\ seen[1].runs >= 2
  /\ wcEmits[1] # << >>
  /\ win[1].isVisible # DerivedVisible(1)

\* C5: the load-url listener forces the focus on the first 'load-url' of the window's
\* webContents and on no later one: no call before the first, one call ever after.
C5_FocusOnce ==
  \A w \in Win : Bound(w) => focusCalls[w] = (IF loadUrls[w] = 0 THEN 0 ELSE 1)

C5_Witness == loadUrls[1] = 2 /\ focusCalls[1] = 1 /\ ~win[1].onceLoadUrl

Forwarded == SelectSeq(appEmits, LAMBDA a : a.name # "browser-window-created")

\* C6: the blur and focus events delivered to bound windows and the blur and focus
\* notifications on app correspond one to one and in order: a blur gives
\* 'browser-window-blur', a focus 'browser-window-focus', each with the event object
\* of the window event and the window.
C6_Forwarding ==
  /\ Len(Forwarded) = Len(fwdEvents)
  /\ \A i \in 1..Len(fwdEvents) :
       Forwarded[i] = [name |-> IF fwdEvents[i].e = "blur" THEN "browser-window-blur"
                                                          ELSE "browser-window-focus",
                       event |-> fwdEvents[i].event,
                       window |-> fwdEvents[i].w]

C6_Witness ==
  /\ Len(fwdEvents) = 2
  /\ fwdEvents[1].e = "focus"
  /\ fwdEvents[2].e = "blur"
  /\ Len(appEmits) = 3

CreatedOf(w) == {i \in 1..Len(appEmits) :
                   appEmits[i].name = "browser-window-created" /\ appEmits[i].window = w}

C7_OncePerWindow ==
  /\ \A i \in 1..Len(appEmits) :
       appEmits[i].name = "browser-window-created" =>
         appEmits[i].window \in Win /\ Bound(appEmits[i].window)
  /\ \A w \in Win :
    /\ Cardinality(CreatedOf(w)) = (IF Bound(w) THEN 1 ELSE 0)
    /\ \A i \in CreatedOf(w) :
         /\ appEmits[i].event.empty
         /\ \A j \in 1..Len(appEmits) : j # i => appEmits[j].event.id # appEmits[i].event.id

C7_InstalledWhenEmitted ==
  \A w \in Win :
    /\ ~Bound(w) /\ CreatedOf(w)' # {} =>
         /\ win'[w].contentView = webContentsOf(w)
         /\ win'[w].onceLoadUrl
         /\ win'[w].listeners = forwardedEvents \cup visibilityEvents
         /\ win'[w].isVisible = DerivedVisible(w)
    /\ \A e \in visibilityEvents :
         Delivered(w, e) /\ win[w].status = "init" /\ DerivedVisible(w) # win[w].isVisible =>
           wcEmits'[w] = Append(wcEmits[w], Payload(DerivedVisible(w)))
    /\ \A e \in forwardedEvents :
         Delivered(w, e) /\ win[w].status = "init" =>
           /\ Len(appEmits') = Len(appEmits) + 1
           /\ appEmits'[Len(appEmits')].window = w
    /\ Delivered(w, "load-url") /\ win[w].status = "init" /\ loadUrls[w] = 0 =>
         focusCalls'[w] = 1

\* C7: binding emits 'browser-window-created' once per window, with a new empty event
\* object and the window; when it is emitted the content view is attached and the
\* load-url listener, the blur and focus forwarders and the five visibility
\* subscriptions are installed, so an event delivered while its listeners run is
\* bridged.
C7_Created == []C7_OncePerWindow /\ [][C7_InstalledWhenEmitted]_vars

C7_Witness ==
  /\ win[1].status = "init"
  /\ wcEmits[1] # << >>
  /\ Len(fwdEvents) = 1
  /\ focusCalls[1] = 1

\* C8: binding sets the cache to isVisible() && !isMinimized() and emits no visibility
\* notification; a window bound while hidden emits 'visible' at a 'show' that finds it
\* visible and not minimized when nothing was emitted before, and a 'maximize' that
\* finds it visible and not minimized, as the event before did, emits nothing.
C8_BindingAndScenario ==
  [][\A w \in Win :
       /\ ~Bound(w) /\ Bound(w)' =>
            /\ win'[w].isVisible = DerivedVisible(w)
            /\ wcEmits'[w] = << >>
       /\ Delivered(w, "show") /\ Bound(w) /\ ~seen[w].atBind /\ wcEmits[w] = << >>
            /\ DerivedVisible(w) =>
              wcEmits'[w] = <<"visible">>
       /\ Delivered(w, "maximize") /\ Bound(w) /\ seen[w].last /\ DerivedVisible(w) =>
              wcEmits'[w] = wcEmits[w]]_vars

C8_Witness ==
  /\ ~seen[1].atBind
  /\ seen[1].runs = 2
  /\ lastEv = [w |-> 1, e |-> "maximize"]
  /\ DerivedVisible(1)
  /\ wcEmits[1] = <<"visible">>

\* C4: a call setBounds(P, ...opts) of the override reads the bounds once and calls the
\* native setBounds once, with the current bounds B in which the fields P has are
\* replaced by P's values and the others kept, and with opts as given; an empty P
\* passes B itself, and B = (0, 0, 800, 600) with P = {width: 1000} passes
\* (0, 0, 1000, 600).
C4_BoundsPatch ==
  [][\A P \in Patches, opts \in Opts :
       nativeCalls' # nativeCalls /\ lastNativeCall'.opts = opts /\ setBounds(P, opts) =>
         /\ getBoundsCalls' = getBoundsCalls + 1
         /\ nativeCalls' = nativeCalls + 1
         /\ \A f \in DOMAIN P : lastNativeCall'.bounds[f] = P[f]
         /\ \A f \in Fields \ DOMAIN P : lastNativeCall'.bounds[f] = bounds[f]
         /\ DOMAIN lastNativeCall'.bounds = Fields
         /\ lastNativeCall'.opts = opts
         /\ P = << >> => lastNativeCall'.bounds = bounds
         /\ (bounds = [x |-> 0, y |-> 0, width |-> 800, height |-> 600]
               /\ P = [width |-> 1000]) =>
              lastNativeCall'.bounds = [x |-> 0, y |-> 0, width |-> 1000, height |-> 600]]_vars

C4_Witness ==
  /\ nativeCalls = 1
  /\ getBoundsCalls = 1
  /\ lastNativeCall = [bounds |-> [x |-> 0, y |-> 0, width |-> 1000, height |-> 600],
                       opts |-> <<TRUE>>]
  /\ bounds = [x |-> 0, y |-> 0, width |-> 1000, height |-> 600]

Focusable(id) == regWin[id].focused \/ regWin[id].devToolsFocused

\* C9: getFocusedWindow() is the first window of getAllWindows() that is focused or
\* whose developer tools are focused, and null when there is none.
C9_FocusedWindow ==
  LET all == getAllWindows
      hits == {i \in 1..Len(all) : Focusable(all[i])}
  IN  /\ \A i \in 1..Len(all) : regWin[all[i]].kind = "BrowserWindow"
      /\ IF hits = {}
           THEN getFocusedWindow = Null
           ELSE \E i \in hits : /\ getFocusedWindow = all[i]
                                /\ \A j \in hits : i <= j

C9_Witness ==
  /\ getAllWindows = <<1, 2, 3>>
  /\ ~regWin[1].focused /\ ~regWin[1].devToolsFocused
  /\ regWin[2].focused /\ ~regWin[2].devToolsFocused
  /\ ~regWin[3].focused /\ regWin[3].devToolsFocused
  /\ getFocusedWindow = 2

LiveBrowserWindows == {id \in RegIds : InRegistry(id) /\ regWin[id].kind = "BrowserWindow"}

C11_FromBrowserView ==
  \A v \in Views :
    LET all == getAllWindows
        hits == {i \in 1..Len(all) : regWin[all[i]].browserView = v}
    IN  /\ fromBrowserView(v) \in LiveBrowserWindows \cup {Null}
        /\ IF hits = {}
             THEN fromBrowserView(v) = Null
             ELSE \E i \in hits : /\ fromBrowserView(v) = all[i]
                                  /\ \A j \in hits : i <= j

C11_Witness ==
  /\ getAllWindows = <<1, 2, 3>>
  /\ regWin[1].browserView = NoView
  /\ regWin[2].browserView = 1
  /\ regWin[3].browserView = 1
  /\ fromBrowserView(1) = 2
  /\ fromBrowserView(2) = Null

\* the place of id in the base registry
RegistryIndex(id) == CHOOSE i \in 1..Len(registry) : registry[i] = id

C12_Queries ==
  LET all == getAllWindows IN
    /\ \A i \in 1..Len(all) : all[i] \in LiveBrowserWindows
    /\ \A id \in LiveBrowserWindows : \E i \in 1..Len(all) : all[i] = id
    /\ \A i, j \in 1..Len(all) : i < j => RegistryIndex(all[i]) < RegistryIndex(all[j])
    /\ \A id \in RegIds :
         fromId(id) = (IF InRegistry(id) /\ regWin[id].kind = "BrowserWindow"
                         THEN id ELSE Null)

C12_ReturnedArray ==
  /\ returned' # returned =>
       /\ returned'.held
       /\ Contents(returned)' = getAllWindows
       /\ \A i \in 1..Len(Contents(returned)') :
            regWin[Contents(returned)'[i]].kind = "BrowserWindow"
  /\ returned' = returned /\ returned.held => Contents(returned)' = Contents(returned)

\* C12: getAllWindows() is exactly the BrowserWindow entries of the base registry, in
\* the registry's order, and the array a call returned reads the same after every
\* later change of the registry; fromId(id) is the registry's window for id when there
\* is one and it is a BrowserWindow, and null when id is absent or of another kind.
C12_AllAndFromId == []C12_Queries /\ [][C12_ReturnedArray]_vars

C12_Witness ==
  /\ returned.held
  /\ Contents(returned) = <<1, 3>>
  /\ registry = <<2>>
  /\ regWin[2].kind = "TopLevelWindow"
  /\ getAllWindows = << >>
  /\ fromId(2) = Null
  /\ fromId(1) = Null

C13_OneEntryPerLiveWindow ==
  /\ \A i, j \in 1..Len(registry) : i # j => registry[i] # registry[j]
  /\ \A id \in RegIds :
       regWin[id].destroyed =>
         /\ ~InRegistry(id)
         /\ fromId(id) = Null
         /\ \A i \in 1..Len(getAllWindows) : getAllWindows[i] # id

C13_RegisterAndUnregister ==
  /\ regResult' = "DuplicateIdentity" /\ regResult # "DuplicateIdentity" =>
       registry' = registry /\ regWin' = regWin
  /\ Len(registry') > Len(registry) =>
       /\ regResult' = "ok"
       /\ ~InRegistry(registry'[Len(registry')])
       /\ SubSeq(registry', 1, Len(registry)) = registry
  /\ \A id \in RegIds :
       /\ InRegistry(id) /\ ~InRegistry(id)' =>
            /\ fromId(id)' = Null
            /\ \A i \in 1..Len(getAllWindows') : getAllWindows'[i] # id
       /\ id <= nextId /\ ~InRegistry(id) => ~InRegistry(id)'

\* C13: the registry never holds two entries with one id nor an entry of a window
\* whose destruction is over; a registration under an id it holds fails and leaves it
\* as it is; once an id is unregistered fromId(id) is null and getAllWindows() is
\* without the window, from then on.
C13_Registry == []C13_OneEntryPerLiveWindow /\ [][C13_RegisterAndUnregister]_vars

C13_Witness ==
  /\ regResult = "DuplicateIdentity"
  /\ registry = <<2, 3>>
  /\ regWin[1].destroyed
  /\ regWin[1].kind = "BrowserWindow"
  /\ regWin[2].kind = "BrowserWindow"
  /\ fromId(1) = Null
  /\ getAllWindows = <<2, 3>>

ClaimedHelpers == {"loadURL", "loadFile", "getURL", "reload", "send", "openDevTools",
                   "closeDevTools", "toggleDevTools", "isDevToolsOpened", "inspectElement",
                   "inspectSharedWorker", "inspectServiceWorker",
                   "showDefinitionForSelection", "capturePage", "setBackgroundThrottling"}

\* C15 as stated: each of the named helpers calls the method of its name on
\* this.webContents once, with all the arguments it was called with, and ends as that
\* call ends: the same value returned, the same failure thrown.
C15_Original ==
  helperCalls > 0 /\ lastHelper.op \in ClaimedHelpers =>
    /\ wcCalls = helperCalls
    /\ lastHelper.wcOp = lastHelper.op
    /\ lastHelper.wcArgs = lastHelper.args
    /\ lastHelper.out = lastHelper.wcOut

\* C15, amended: each of the named helpers calls the method of its name on
\* this.webContents once and what that call throws goes through; loadURL, loadFile,
\* reload, send, openDevTools, inspectElement and capturePage hand on all arguments and
\* return the result; getURL, closeDevTools, toggleDevTools, isDevToolsOpened,
\* inspectSharedWorker, inspectServiceWorker and showDefinitionForSelection call without
\* arguments, whatever they were called with, and return the result;
\* setBackgroundThrottling hands on its first argument alone and returns undefined.
C15_Helpers ==
  helperCalls > 0 /\ lastHelper.op \in ClaimedHelpers =>
    LET h == lastHelper IN
    /\ wcCalls = helperCalls
    /\ h.wcOp = h.op
    /\ h.wcOut.kind = "throw" => h.out = h.wcOut
    /\ h.op \in {"loadURL", "loadFile", "reload", "send", "openDevTools", "inspectElement",
                  "capturePage"} =>
         h.wcArgs = h.args /\ h.out = h.wcOut
    /\ h.op \in {"getURL", "closeDevTools", "toggleDevTools", "isDevToolsOpened",
                  "inspectSharedWorker", "inspectServiceWorker",
                  "showDefinitionForSelection"} =>
         h.wcArgs = << >> /\ h.out = h.wcOut
    /\ h.op = "setBackgroundThrottling" =>
         /\ h.wcArgs = <<IF h.args = << >> THEN Undefined ELSE h.args[1]>>
         /\ h.wcOut.kind = "return" => h.out = [kind |-> "return", v |-> Undefined]

C15_Witness ==
  /\ helperCalls = 2
  /\ wcCalls = 2
  /\ lastHelper.op = "setBackgroundThrottling"
  /\ lastHelper.args = <<"a", "b">>
  /\ lastHelper.wcArgs = <<"a">>
  /\ lastHelper.wcOut = [kind |-> "return", v |-> "r"]
  /\ lastHelper.out = [kind |-> "return", v |-> Undefined]

\* C16: when the webContents of a bound window is destroyed and no 'load-url' has been
\* emitted on it, the load-url listener is registered no more and has never run.
C16_ReleasedAtDestruction ==
  \A w \in Win :
    Bound(w) /\ wcDestroyed[w] /\ loadUrls[w] = 0 =>
      /\ ~win[w].onceLoadUrl
      /\ focusCalls[w] = 0

\* C17: for each property defined with a get and a set function the getter reads the
\* native attribute the setter writes: a read that follows the assignment of v to the
\* property gives v, and the assignment changes that attribute alone.
C17_GetAfterSet ==
  [][\A p \in Properties :
       /\ lastGet'.p = p /\ lastSet.p = p /\ (lastGet.p # p \/ lastGet.v # lastGet'.v) =>
            lastGet'.v = lastSet.v
       /\ lastSet'.p = p /\ (lastSet.p # p \/ lastSet.v # lastSet'.v) =>
            \A a \in NativeAttrs \ {nativeWrites[setter[p]]} : attrs'[a] = attrs[a]]_vars

\* the outermost emission is a visibility notification of w and its listeners return
OutermostReturns(w) ==
  /\ Len(stack) = 1
  /\ stack[1] = [kind |-> "visibility", w |-> w]
  /\ stack' = << >>

\* an event delivered while a listener of the notification runs meets the cache the
\* emitting handler wrote, the value it read, and is handled by the rule: one
\* notification when the value read now differs, none when it does not
C18_NestedDelivery ==
  \A w \in Win, e \in visibilityEvents :
    Delivered(w, e) /\ Nested(w) =>
      /\ win[w].isVisible = seen[w].last
      /\ IF DerivedVisible(w) # seen[w].last
           THEN /\ wcEmits'[w] = Append(wcEmits[w], Payload(DerivedVisible(w)))
                /\ win'[w].isVisible = DerivedVisible(w)
           ELSE /\ wcEmits'[w] = wcEmits[w]
                /\ win'[w].isVisible = win[w].isVisible

C18_NoDuplicate ==
  \A w \in Win : \A i \in 1..Len(wcEmits[w]) :
    i < Len(wcEmits[w]) => wcEmits[w][i] # wcEmits[w][i + 1]

\* C18 as stated: with events delivered while a listener of the notification runs,
\* each change the handler meets is notified once and none twice, and the cache is
\* isVisible() && !isMinimized() when the listeners of the outermost one return.
C18_Original ==
  /\ []C18_NoDuplicate
  /\ [][/\ C18_NestedDelivery
        /\ \A w \in Win : OutermostReturns(w) /\ seen[w].nested =>
                           win'[w].isVisible = DerivedVisible(w)]_vars

\* C18, amended: as stated, but when the listeners of the outermost notification
\* return the cache is the value of isVisible() && !isMinimized() that the handler
\* which ran last, nested ones included, read.
C18_Reentrant ==
  /\ []C18_NoDuplicate
  /\ [][/\ C18_NestedDelivery
        /\ \A w \in Win : OutermostReturns(w) => win'[w].isVisible = seen[w].last]_vars

C18_Witness ==
  /\ Len(stack) = 2
  /\ stack[1] = [kind |-> "visibility", w |-> 1]
  /\ stack[2] = [kind |-> "visibility", w |-> 1]
  /\ wcEmits[1] = <<"visible", "hidden">>
  /\ ~win[1].isVisible
  /\ seen[1].runs = 2

\* C19: the payloads emitted on a window's webContents alternate, 'visible' after
\* 'hidden' and 'hidden' after 'visible', and the first one after binding is the
\* opposite of isVisible() && !isMinimized() as read at binding.
C19_Alternation ==
  \A w \in Win :
    LET n == Len(wcEmits[w]) IN
    /\ \A i \in 1..n : wcEmits[w][i] \in {"visible", "hidden"}
    /\ \A i \in 1..n : i > 1 => wcEmits[w][i] = Payload(wcEmits[w][i - 1] = "hidden")
    /\ n > 0 => Bound(w) /\ wcEmits[w][1] = Payload(~seen[w].atBind)

C19_Witness ==
  /\ seen[1].atBind
  /\ wcEmits[1] = <<"hidden", "visible", "hidden">>

\* the cache of every window stays and no visibility notification is emitted
VisibilityUntouched ==
  \A v \in Win : win'[v].isVisible = win[v].isVisible /\ wcEmits'[v] = wcEmits[v]

\* C20: a focus, blur or load-url event changes the cache of no window and emits no
\* visibility notification, whatever the native window's state is by then; a show,
\* hide, minimize, maximize or restore event of w emits nothing on app, forces no
\* focus and leaves the cache and the notifications of every other window as they are.
C20_Frame ==
  [][\A w \in Win :
       /\ \A e \in {"focus", "blur", "load-url"} :
            Delivered(w, e) /\ Bound(w) => VisibilityUntouched
       /\ \A e \in {"show", "hide", "minimize", "maximize", "restore"} :
            Delivered(w, e) /\ Bound(w) =>
              /\ appEmits' = appEmits
              /\ focusCalls' = focusCalls
              /\ \A v \in Win \ {w} :
                   win'[v].isVisible = win[v].isVisible /\ wcEmits'[v] = wcEmits[v]]_vars

C20_Witness ==
  /\ lastEv = [w |-> 1, e |-> "show"]
  /\ wcEmits = <<<<"visible">>, << >>>>
  /\ win[1].isVisible
  /\ Bound(2)
  /\ ~win[2].isVisible
  /\ DerivedVisible(2)
  /\ Len(appEmits) = 2
  /\ focusCalls = <<0, 0>>

====
